---- MODULE Spec2Model ----
(***************************************************************************)
(* A model of the muta jsonrpc tooling:                                    *)
(*   - pymuta: Client (JSON-RPC round trips, sign_tx, sync_raw_transaction)*)
(*     and the SimpleStorage / Bnb contract wrappers;                      *)
(*   - devtools/scripts/check_dup_dep.py (dependency duplication checker); *)
(*   - devtools/fabric/fabfile.py (fleet deployment tasks);                *)
(*   - jsonrpc/tests/test_cli.py (the CLI-driven test script).             *)
(* abi_encode / abi_decode are pure functions; they are also applied to     *)
(* interface documents of their own (SpecAbi).                             *)
(* The client is single threaded.  Every HTTP round trip is one step of    *)
(* the model: an action runs the code from the arrival of one response up  *)
(* to the POST of the next request (or to the end of the invocation).      *)
(* time.sleep changes no state and is not a step of its own.               *)
(***************************************************************************)
EXTENDS Integers, Sequences, FiniteSets, TLC

VARIABLES
    c_tx_version,   \* pymuta.c_tx_version (module global)
    address,        \* wrapper -> self.address, or Unset while the attribute does not exist
    pc,             \* "idle" | site of the pending round trip | "done"
    op,             \* the invocation in progress: [obj, name, args]
    i,              \* loop variable of sync_raw_transaction: polls already answered
    h,              \* sync_raw_transaction: hash taken from the submission acknowledgment
    tx,             \* sign_tx: the Transaction record built by the last sign_tx of this invocation
    code,           \* the signed envelope handed to sync_raw_transaction
    ret,            \* value returned by the invocation
    exc,            \* exception raised by the invocation, "none" if it returned
    sent,           \* requests POSTed during this invocation, in order
    recv,           \* responses received during this invocation, in order
    lastReceipt,    \* history: wrapper -> receipt observed by its latest deploy that got one
    m,              \* check_dup_dep: the dict m
    out,            \* check_dup_dep: printed lines
    files,          \* check_dup_dep: manifests yielded by glob so far
    dpc,            \* check_dup_dep: "scan" | "crashed"
    ftask,          \* fabfile: task given to fab, "none" before the invocation
    fidx,           \* fabfile: number of commands of the task already executed
    fstate,         \* fabfile: "idle" | "running" | "done" | "aborted"
    host,           \* fabfile: host -> what the host holds
    flog,           \* fabfile: commands executed so far, in order
    tpc,            \* test_cli.py: "idle" | "running" | "exited"
    tidx,           \* test_cli.py: statements of the tests already executed
    tstatus,        \* test_cli.py: exit status of the process, -1 while it has not exited
    tstderr,        \* test_cli.py: what the exit wrote to stderr
    tlog,           \* test_cli.py: what ran so far, in order
    apc,            \* abi codec: "idle" | "ready" | "done"
    ain,            \* abi codec: the interface document and the method name given
    aout            \* abi codec: the call made and its outcome

rpcVars == <<c_tx_version, address, pc, op, i, h, tx, code, ret, exc, sent, recv, lastReceipt>>
dupVars == <<m, out, files, dpc>>
fabVars == <<ftask, fidx, fstate, host, flog>>
cliVars == <<tpc, tidx, tstatus, tstderr, tlog>>
abiVars == <<apc, ain, aout>>
vars == <<c_tx_version, address, pc, op, i, h, tx, code, ret, exc, sent, recv, lastReceipt,
          m, out, files, dpc, ftask, fidx, fstate, host, flog,
          tpc, tidx, tstatus, tstderr, tlog, apc, ain, aout>>

(***************************************************************************)
(* Python / JSON values.  Every value is a record [kind, v].               *)
(*   none   : None / JSON null                                             *)
(*   str    : a str; v.ox says whether it starts with "0x", v.s is the     *)
(*            rest as a sequence of characters: 0..15 are the hex digits,  *)
(*            larger numbers are characters that are no hex digit          *)
(*   bytes  : v is the sequence of bytes                                   *)
(*   int    : a Python int                                                 *)
(*   object : a dict, v is a record of its keys                            *)
(*   list   : v is the sequence of elements                                *)
(*   user   : a pymuta.User                                                *)
(*   signed : the "0x..." text of a serialized UnverifiedTransaction       *)
(*   decoded: a value eth_abi.decode_abi produced                          *)
(***************************************************************************)
None == [kind |-> "none", v |-> <<>>]
Hex(d) == [kind |-> "str", v |-> [ox |-> TRUE, s |-> d]]
Text(d) == [kind |-> "str", v |-> [ox |-> FALSE, s |-> d]]
Bytes(b) == [kind |-> "bytes", v |-> b]
PyInt(n) == [kind |-> "int", v |-> n]
PyBool(b) == [kind |-> "bool", v |-> b]
Obj(r) == [kind |-> "object", v |-> r]
List(l) == [kind |-> "list", v |-> l]

\* Outcome of a Python call: a returned value or a raised exception.
Return(val) == [exc |-> "none", val |-> val]
Raise(e) == [exc |-> e, val |-> None]

\* The attribute self.address does not exist (only annotated in __init__).
Unset == [kind |-> "unset", v |-> <<>>]
NoSign == [pk |-> -1, to |-> None, data |-> None, value |-> 0, quota |-> 0]
NoOp == [obj |-> "none", name |-> "none", args |-> <<>>, sign |-> NoSign]

\* Python truth value of x (`if r:`, `if to:`, `if user:`, `if data:`).
Truthy(x) ==
    CASE x.kind = "none" -> FALSE
      [] x.kind = "str" -> x.v.ox \/ Len(x.v.s) > 0
      [] x.kind = "bytes" -> Len(x.v) > 0
      [] x.kind = "int" -> x.v # 0
      [] x.kind = "bool" -> x.v
      [] x.kind = "object" -> DOMAIN x.v # {}
      [] x.kind = "list" -> Len(x.v) > 0
      [] OTHER -> TRUE

IsHexDigits(s) == \A k \in 1..Len(s) : s[k] < 16

RECURSIVE HexToInt(_)
\* The number a sequence of hex digits denotes.
HexToInt(s) ==
    IF Len(s) = 0 THEN 0
    ELSE 16 * HexToInt(SubSeq(s, 1, Len(s) - 1)) + s[Len(s)]

\* int(a, 16): the prefix "0x" is optional, at least one digit is required.
int16(a) ==
    IF a.kind # "str" THEN Raise("TypeError")
    ELSE IF Len(a.v.s) > 0 /\ IsHexDigits(a.v.s) THEN Return(PyInt(HexToInt(a.v.s)))
    ELSE Raise("ValueError")

\* eth_utils.remove_0x_prefix / add_0x_prefix
remove_0x_prefix(x) ==
    IF x.kind = "str" THEN Return(Text(x.v.s)) ELSE Raise("TypeError")
add_0x_prefix(x) == Hex(x.v.s)

RECURSIVE HexPairs(_)
HexPairs(s) ==
    IF Len(s) = 0 THEN <<>>
    ELSE <<16 * s[1] + s[2]>> \o HexPairs(SubSeq(s, 3, Len(s)))

\* bytes.fromhex(t) for a str t without prefix: an even number of hex digits.
fromhex(t) ==
    IF t.v.ox \/ ~IsHexDigits(t.v.s) \/ Len(t.v.s) % 2 # 0 THEN Raise("ValueError")
    ELSE Return(Bytes(HexPairs(t.v.s)))

RECURSIVE ToBytesBE(_, _)
\* n.to_bytes(len, byteorder='big') for 0 <= n < 256^len
ToBytesBE(n, len) ==
    IF len = 0 THEN <<>> ELSE Append(ToBytesBE(n \div 256, len - 1), n % 256)

(***************************************************************************)
(* Fixtures                                                                *)
(***************************************************************************)
\* Characters that are no hex digit.
NonHexChar == 16
\* The block tag 'latest' (a text that is no hex number).
Latest == Text(<<NonHexChar + 1>>)

\* pymuta.user0 .. user3; an address is abstracted to one byte.
User(k) == [kind |-> "user", v |-> [private_key |-> k, address |-> Hex(<<10, k>>)]]
user0 == User(0)
user1 == User(1)

\* Wrapper objects of the model: one SimpleStorage and one Bnb, both built for user0.
Wrappers == {"SimpleStorage", "Bnb"}
WrapperUser(w) == user0

\* SimpleStorage.bin / bnb.bin, and the constructor arguments Bnb.deploy appends.
SimpleStorageBin == Text(<<6, 0>>)
BnbBin == Text(<<6, 1>>)
BnbCtorData == Text(<<1, 7>>)

\* SimpleStorage.abi and bnb.abi: the members the wrappers look up.
SimpleStorageAbi ==
    << [name |-> "set", inputs |-> <<"uint256">>, outputs |-> <<>>],
       [name |-> "get", inputs |-> <<>>, outputs |-> <<"uint256">>] >>
BnbAbi ==
    << [name |-> "owner", inputs |-> <<>>, outputs |-> <<"address">>],
       [name |-> "totalSupply", inputs |-> <<>>, outputs |-> <<"uint256">>],
       [name |-> "symbol", inputs |-> <<>>, outputs |-> <<"string">>],
       [name |-> "balanceOf", inputs |-> <<"address">>, outputs |-> <<"uint256">>],
       [name |-> "freezeOf", inputs |-> <<"address">>, outputs |-> <<"uint256">>],
       [name |-> "name", inputs |-> <<>>, outputs |-> <<"string">>],
       [name |-> "decimals", inputs |-> <<>>, outputs |-> <<"uint8">>],
       [name |-> "transfer", inputs |-> <<"address", "uint256">>, outputs |-> <<"bool">>] >>
WrapperAbi(w) == IF w = "SimpleStorage" THEN SimpleStorageAbi ELSE BnbAbi

(***************************************************************************)
(* ABI codec                                                               *)
(***************************************************************************)
RECURSIVE Lookup_carries_over(_, _, _)
\* A loop that builds the type list of every member it examines, before the
\* name test: when no member matches, the last member's list is left over.
Lookup_carries_over(abi, method, k) ==
    IF k > Len(abi)
    THEN IF Len(abi) = 0 THEN <<"unbound">> ELSE <<"bound", abi[Len(abi)]>>
    ELSE IF abi[k].name # method THEN Lookup_carries_over(abi, method, k + 1)
    ELSE <<"bound", abi[k]>>

RECURSIVE Lookup(_, _, _)
\* The loop `for member in abi` of abi_encode / abi_decode from member k on:
\* the type list of the first member named method, <<"unbound">> when the
\* loop ends without assigning typeis.
Lookup(abi, method, k) ==
    IF k > Len(abi) THEN <<"unbound">>
    ELSE IF abi[k].name # method THEN Lookup(abi, method, k + 1)
    ELSE <<"bound", abi[k]>>

\* keccak(signature)[:4], abstracted to an injective code of the signature.
Signatures ==
    << <<"set", <<"uint256">> >>, <<"get", <<>> >>, <<"owner", <<>> >>,
       <<"totalSupply", <<>> >>, <<"symbol", <<>> >>, <<"balanceOf", <<"address">> >>,
       <<"freezeOf", <<"address">> >>, <<"name", <<>> >>, <<"decimals", <<>> >>,
       <<"transfer", <<"address", "uint256">> >> >>
Selector(sig) ==
    LET k == CHOOSE n \in 1..Len(Signatures) : Signatures[n] = sig IN <<k \div 16, k % 16>>

RECURSIVE EncodeArgs(_, _)
\* eth_abi.encode_abi, one byte per word: an int as its value, a str by its digits.
EncodeArgs(types, params) ==
    IF Len(types) = 0 THEN <<>>
    ELSE (IF params[1].kind = "int"
          THEN <<params[1].v \div 16, params[1].v % 16>>
          ELSE params[1].v.s) \o EncodeArgs(Tail(types), Tail(params))

abi_encode(abi, method, params) ==
    LET found == Lookup(abi, method, 1) IN
    IF found[1] = "unbound" THEN Raise("UnboundLocalError")
    ELSE LET typeis == found[2].inputs IN
         IF Len(typeis) # Len(params) THEN Raise("ValueError")
         ELSE Return(add_0x_prefix(Text(Selector(<<method, typeis>>) \o EncodeArgs(typeis, params))))

abi_decode(abi, method, rets) ==
    LET found == Lookup(abi, method, 1) IN
    IF found[1] = "unbound" THEN Raise("UnboundLocalError")
    ELSE LET typeis == found[2].outputs
             t == remove_0x_prefix(rets) IN
         IF t.exc # "none" THEN t
         ELSE LET b == fromhex(t.val) IN
              IF b.exc # "none" THEN b
              ELSE IF Len(typeis) = 1
                   THEN Return([kind |-> "decoded", v |-> <<typeis[1], b.val.v>>])
                   ELSE Return([kind |-> "decoded", v |-> <<typeis, b.val.v>>])

(***************************************************************************)
(* The chain node (environment) and Client.send                            *)
(***************************************************************************)
\* range(64) of sync_raw_transaction
PollAttempts == 64
\* valid_until_block = block_number() + 16
ValidWindow == 16

\* What requests.post / resp.json() can produce: a failure of the transport, a
\* JSON body without 'result', or a body with a result.
TransportFailure == [kind |-> "failure", v |-> <<>>]
NoResultBody == [kind |-> "body", v |-> [error |-> "Method not found"]]
Body(result) == [kind |-> "body", v |-> [result |-> result]]

TxHash == Hex(<<11, 11>>)
ContractAddresses == {Hex(<<12, 1>>), Hex(<<12, 2>>)}
Receipt(a) ==
    Obj([contractAddress |-> a, transactionHash |-> TxHash, blockNumber |-> Hex(<<3>>)])
DomainError == Obj([message |-> "StateProofNotFoundError"])

\* Results the node may place in 'result', by wire method.
NodeResults(method) ==
    CASE method = "blockNumber" -> {Hex(<<2>>), Hex(<<1, 0>>)}
      [] method = "sendRawTransaction" -> {Obj([hash |-> TxHash]), DomainError}
      [] method = "getTransactionReceipt" -> {None} \cup {Receipt(a) : a \in ContractAddresses}
      [] method = "call" -> {Hex(<<2, 10>>), Hex(<<>>)}
      [] method = "getBalance" -> {Hex(<<4, 0>>)}
      [] method = "getTransactionCount" -> {Hex(<<1>>), Hex(<<2>>)}
      [] OTHER -> {Hex(<<1>>), DomainError}
NodeReplies(method) ==
    {TransportFailure, NoResultBody} \cup {Body(r) : r \in NodeResults(method)}

\* Client.send, first half: the request that is POSTed.
send_data(method, params) ==
    [jsonrpc |-> "2.0", method |-> method, params |-> params, id |-> 1]

\* A send that raises when the result is a domain-error object.
send_result_raising(resp) ==
    IF resp.kind = "failure" THEN Raise("ConnectionError")
    ELSE IF "result" \notin DOMAIN resp.v THEN Raise("KeyError")
    ELSE IF resp.v.result.kind = "object" /\ "message" \in DOMAIN resp.v.result.v
    THEN Raise("RpcError")
    ELSE Return(resp.v.result)

\* Client.send, second half: what it returns (or raises) for the reply resp.
send_result(resp) ==
    IF resp.kind = "failure" THEN Raise("ConnectionError")
    ELSE IF "result" \notin DOMAIN resp.v THEN Raise("KeyError")
    ELSE Return(resp.v.result)

\* Client.block_number, given what self.send('blockNumber') produced.
block_number(a) == IF a.exc # "none" THEN a ELSE int16(a.val)

\* A call that always names the wrapper's user as the caller.
call_params_with_from(to, user, data) ==
    IF Truthy(data)
    THEN Obj([to |-> to, from |-> user0.v.address, data |-> data])
    ELSE Obj([to |-> to, from |-> user0.v.address])

\* Client.call: the dict `send`.
call_params(to, user, data) ==
    IF Truthy(user) /\ Truthy(data)
    THEN Obj([to |-> to, from |-> user.v.address, data |-> data])
    ELSE IF Truthy(user) THEN Obj([to |-> to, from |-> user.v.address])
    ELSE IF Truthy(data) THEN Obj([to |-> to, data |-> data])
    ELSE Obj([to |-> to])

(***************************************************************************)
(* Client.sign_tx                                                          *)
(***************************************************************************)
\* random.choice over letters and digits, 32 times: two of the possible nonces.
Nonces == {Text(<<NonHexChar + 2>>), Text(<<NonHexChar + 3>>)}

\* blockchain_pb2.Transaction() : every field at its proto3 default.
EmptyTx ==
    [valid_until_block |-> 0, nonce |-> Text(<<>>), version |-> 0,
     chain_id |-> 0, to |-> Text(<<>>), chain_id_v1 |-> <<>>, to_v1 |-> <<>>,
     data |-> <<>>, value |-> <<>>, quota |-> 0]

\* No transaction record was built.
NoTx == [EmptyTx EXCEPT !.version = -1]

\* The chain id of version 1 written whatever the version is.
sign_tx_dest_chain_id_v1_always(t, to) ==
    LET t1 == [t EXCEPT !.chain_id_v1 = ToBytesBE(1, 32)] IN
    IF t.version = 1
    THEN IF ~Truthy(to) THEN [exc |-> "none", tx |-> t1]
         ELSE LET x == remove_0x_prefix(to) IN
              IF x.exc # "none" THEN [exc |-> x.exc, tx |-> t1]
              ELSE LET b == fromhex(x.val) IN
                   IF b.exc # "none" THEN [exc |-> b.exc, tx |-> t1]
                   ELSE [exc |-> "none", tx |-> [t1 EXCEPT !.to_v1 = b.val.v]]
    ELSE LET t0 == [t1 EXCEPT !.chain_id = 1] IN
         IF ~Truthy(to) THEN [exc |-> "none", tx |-> t0]
         ELSE LET x == remove_0x_prefix(to) IN
              IF x.exc # "none" THEN [exc |-> x.exc, tx |-> t0]
              ELSE [exc |-> "none", tx |-> [t0 EXCEPT !.to = x.val]]

\* Lines 161-168: the chain id and the destination, by version.
sign_tx_dest(t, to) ==
    IF t.version = 1
    THEN LET t1 == [t EXCEPT !.chain_id_v1 = ToBytesBE(1, 32)] IN
         IF ~Truthy(to) THEN [exc |-> "none", tx |-> t1]
         ELSE LET x == remove_0x_prefix(to) IN
              IF x.exc # "none" THEN [exc |-> x.exc, tx |-> t1]
              ELSE LET b == fromhex(x.val) IN
                   IF b.exc # "none" THEN [exc |-> b.exc, tx |-> t1]
                   ELSE [exc |-> "none", tx |-> [t1 EXCEPT !.to_v1 = b.val.v]]
    ELSE LET t0 == [t EXCEPT !.chain_id = 1] IN
         IF ~Truthy(to) THEN [exc |-> "none", tx |-> t0]
         ELSE LET x == remove_0x_prefix(to) IN
              IF x.exc # "none" THEN [exc |-> x.exc, tx |-> t0]
              ELSE [exc |-> "none", tx |-> [t0 EXCEPT !.to = x.val]]

\* Lines 169-171: payload, value and quota.
sign_tx_payload(t, data, value, quota) ==
    LET x == remove_0x_prefix(data) IN
    IF x.exc # "none" THEN [exc |-> x.exc, tx |-> t]
    ELSE LET b == fromhex(x.val) IN
         IF b.exc # "none" THEN [exc |-> b.exc, tx |-> t]
         ELSE [exc |-> "none",
               tx |-> [t EXCEPT !.data = b.val.v, !.value = ToBytesBE(value, 32),
                                !.quota = quota]]

\* A validity window that is one block short.
valid_until_short(height) == height + ValidWindow - 1

\* Line 158: the validity window from the height block_number() returned.
valid_until(height) == height + ValidWindow

\* Lines 173-181: the signed envelope, as text.
envelope(pk, t) ==
    [kind |-> "signed",
     v |-> [transaction |-> t, signature |-> [signer |-> pk, msg |-> t], crypto |-> 0]]

\* Client.sign_tx(pk, to, data, value, quota), given the outcome bn of its
\* self.block_number(), the nonce drawn and c_tx_version.
\* The result is [exc, val, tx]: the envelope returned and the record built.
sign_tx(pk, to, data, value, quota, bn, nonce, version) ==
    IF bn.exc # "none" THEN [exc |-> bn.exc, val |-> None, tx |-> NoTx]
    ELSE LET t == [EmptyTx EXCEPT !.valid_until_block = valid_until(bn.val.v),
                                  !.nonce = nonce, !.version = version]
             d == sign_tx_dest(t, to) IN
         IF d.exc # "none" THEN [exc |-> d.exc, val |-> None, tx |-> NoTx]
         ELSE LET q == sign_tx_payload(d.tx, data, value, quota) IN
              IF q.exc # "none" THEN [exc |-> q.exc, val |-> None, tx |-> NoTx]
              ELSE [exc |-> "none", val |-> envelope(pk, q.tx), tx |-> q.tx]

(***************************************************************************)
(* sync_raw_transaction and the wrappers' continuations                    *)
(***************************************************************************)
\* Line 147: h = r['hash']
ack_hash(r) ==
    IF r.kind # "object" THEN Raise("TypeError")
    ELSE IF "hash" \notin DOMAIN r.v THEN Raise("KeyError")
    ELSE Return(r.v.hash)

\* A loop that runs one time too many.
sync_has_attempt_off_by_one(k) == k <= PollAttempts

\* Line 148: whether the loop `for _ in range(64)` has an iteration left after k.
sync_has_attempt(k) == k < PollAttempts

\* The test of the receipt inverted: `if not r`.
sync_poll_ends_inverted(r) == ~Truthy(r)

\* Lines 150-151: the poll result r ends the loop.
sync_poll_ends(r) == Truthy(r)

\* A deploy that stores an address whatever sync_raw_transaction returned.
deploy_store_unchecked(old, r) ==
    IF r.kind = "object" /\ "contractAddress" \in DOMAIN r.v
    THEN [exc |-> "none", address |-> r.v.contractAddress]
    ELSE [exc |-> "none", address |-> Unset]

\* Lines 199/233: self.address = r['contractAddress'], given what
\* sync_raw_transaction returned.  The result is [exc, address].
deploy_store(old, r) ==
    IF r.kind # "object" THEN [exc |-> "TypeError", address |-> old]
    ELSE IF "contractAddress" \notin DOMAIN r.v THEN [exc |-> "KeyError", address |-> old]
    ELSE [exc |-> "none", address |-> r.v.contractAddress]

\* What each wrapper method does with the value r of sync_raw_transaction.
\* The result is [exc, val, address].
after_sync(o, old, r) ==
    IF o.name = "deploy"
    THEN LET d == deploy_store(old, r) IN
         [exc |-> d.exc, val |-> IF d.exc = "none" THEN r ELSE None, address |-> d.address]
    ELSE [exc |-> "none", val |-> r, address |-> old]

\* Post-processing of the result of a method that makes one request.
post_process(o, r) ==
    CASE o.obj = "Client" /\ o.name = "get_balance" -> int16(r)
      [] o.obj = "Bnb" /\ o.name \in {"total_supply", "balance_of", "freeze_of", "decimals"}
            -> int16(r)
      [] o.obj = "Bnb" /\ o.name = "symbol" -> abi_decode(BnbAbi, "symbol", r)
      [] o.obj = "Bnb" /\ o.name = "name" -> abi_decode(BnbAbi, "name", r)
      [] OTHER -> Return(r)

(***************************************************************************)
(* State changes shared by the actions                                     *)
(***************************************************************************)
Invocation(obj, name, args) == [obj |-> obj, name |-> name, args |-> args, sign |-> NoSign]
Signing(o, pk, to, data, value, quota) ==
    [o EXCEPT !.sign = [pk |-> pk, to |-> to, data |-> data, value |-> value, quota |-> quota]]

\* The invocation o ends before any request: it raises e.
Fails(o, e) ==
    /\ op' = o
    /\ pc' = "done"
    /\ exc' = e
    /\ ret' = None
    /\ UNCHANGED <<c_tx_version, address, i, h, tx, code, sent, recv, lastReceipt>>
    /\ UNCHANGED <<dupVars, fabVars, cliVars, abiVars>>

\* The invocation o POSTs its first request and waits at site.
Requests(o, site, method, params) ==
    /\ op' = o
    /\ pc' = site
    /\ sent' = Append(sent, send_data(method, params))
    /\ UNCHANGED <<c_tx_version, address, i, h, tx, code, ret, exc, recv, lastReceipt>>
    /\ UNCHANGED <<dupVars, fabVars, cliVars, abiVars>>

\* The invocation ends with outcome r.
Finishes(r) ==
    /\ pc' = "done"
    /\ exc' = r.exc
    /\ ret' = r.val

(***************************************************************************)
(* Invocations of the Client's methods                                     *)
(***************************************************************************)
Accounts == {user0, user1}
Tags == {Latest}
KeyWord == Hex(<<0, 0>>)
Malformed == Text(<<NonHexChar, NonHexChar>>)

\* The methods class Client defines.
ClientMethods ==
    {"send", "block_number", "call", "get_balance", "get_code", "get_block_by_hash",
     "get_block_header", "get_block_by_number", "get_logs", "get_storage_at",
     "get_transaction", "get_transaction_count", "get_transaction_receipt", "ping",
     "peer_count", "send_raw_transaction", "sync_raw_transaction", "sign_tx"}

\* Methods test_client.py calls on its Client (proofs and filters).
TestedProofAndFilterMethods ==
    {"get_state_proof", "get_transaction_proof", "new_block_filter", "new_filter",
     "get_filter_changes"}

\* client.<name>(...) for a name class Client does not define: the attribute
\* lookup raises before anything is sent.
Client_getattr(name) ==
    /\ pc = "idle"
    /\ name \notin ClientMethods
    /\ Fails(Invocation("Client", name, <<>>), "AttributeError")

Client_send(method, params) ==
    /\ pc = "idle"
    /\ Requests(Invocation("Client", "send", <<>>), "rpc", method, params)

Client_block_number ==
    /\ pc = "idle"
    /\ Requests(Invocation("Client", "block_number", <<>>), "block_number", "blockNumber", None)

Client_call(to, user, data) ==
    /\ pc = "idle"
    /\ Requests(Invocation("Client", "call", <<to, user, data>>), "rpc", "call",
                List(<<call_params(to, user, data)>>))

Client_get_balance(user, bn) ==
    /\ pc = "idle"
    /\ Requests(Invocation("Client", "get_balance", <<user, bn>>), "rpc", "getBalance",
                List(<<user.v.address, bn>>))

Client_get_code(addr, bn) ==
    /\ pc = "idle"
    /\ Requests(Invocation("Client", "get_code", <<addr, bn>>), "rpc", "getCode",
                List(<<addr, bn>>))

Client_get_block_by_hash(bh, include_tx) ==
    /\ pc = "idle"
    /\ Requests(Invocation("Client", "get_block_by_hash", <<bh, include_tx>>), "rpc",
                "getBlockByHash", List(<<bh, include_tx>>))

Client_get_block_header(bn) ==
    /\ pc = "idle"
    /\ Requests(Invocation("Client", "get_block_header", <<bn>>), "rpc", "getBlockHeader",
                List(<<bn>>))

Client_get_block_by_number(bn, include_tx) ==
    /\ pc = "idle"
    /\ Requests(Invocation("Client", "get_block_by_number", <<bn, include_tx>>), "rpc",
                "getBlockByNumber", List(<<bn, include_tx>>))

Client_get_logs(filter_obj) ==
    /\ pc = "idle"
    /\ Requests(Invocation("Client", "get_logs", <<filter_obj>>), "rpc", "getLogs",
                List(<<filter_obj>>))

Client_get_storage_at(addr, key, bn) ==
    /\ pc = "idle"
    /\ Requests(Invocation("Client", "get_storage_at", <<addr, key, bn>>), "rpc",
                "getStorageAt", List(<<addr, key, bn>>))

Client_get_transaction(th) ==
    /\ pc = "idle"
    /\ Requests(Invocation("Client", "get_transaction", <<th>>), "rpc", "getTransaction",
                List(<<th>>))

Client_get_transaction_count(addr, bn) ==
    /\ pc = "idle"
    /\ Requests(Invocation("Client", "get_transaction_count", <<addr, bn>>), "rpc",
                "getTransactionCount", List(<<addr, bn>>))

Client_get_transaction_receipt(th) ==
    /\ pc = "idle"
    /\ Requests(Invocation("Client", "get_transaction_receipt", <<th>>), "rpc",
                "getTransactionReceipt", List(<<th>>))

Client_ping ==
    /\ pc = "idle"
    /\ Requests(Invocation("Client", "ping", <<>>), "rpc", "ping", None)

Client_peer_count ==
    /\ pc = "idle"
    /\ Requests(Invocation("Client", "peer_count", <<>>), "rpc", "peerCount", None)

Client_send_raw_transaction(data) ==
    /\ pc = "idle"
    /\ Requests(Invocation("Client", "send_raw_transaction", <<data>>), "send_raw",
                "sendRawTransaction", List(<<data>>))

Client_sync_raw_transaction(data) ==
    /\ pc = "idle"
    /\ Requests(Invocation("Client", "sync_raw_transaction", <<data>>), "send_raw",
                "sendRawTransaction", List(<<data>>))

\* sign_tx starts with self.block_number().
Client_sign_tx(pk, to, data, value, quota) ==
    /\ pc = "idle"
    /\ Requests(Signing(Invocation("Client", "sign_tx", <<>>), pk, to, data, value, quota),
                "block_number", "blockNumber", None)

(***************************************************************************)
(* Invocations of the wrappers' methods                                    *)
(***************************************************************************)
\* str + str
Concat(a, b) == [kind |-> "str", v |-> [ox |-> a.v.ox, s |-> a.v.s \o b.v.s]]

\* A method that signs a transaction to self.address and waits for it
\* (set, transfer): abi_encode, then the arguments of sign_tx are evaluated.
Wrapper_transact(w, name, method, params) ==
    LET o == Invocation(w, name, params)
        enc == abi_encode(WrapperAbi(w), method, params) IN
    IF enc.exc # "none" THEN Fails(o, enc.exc)
    ELSE IF address[w] = Unset THEN Fails(o, "AttributeError")
    ELSE Requests(Signing(o, WrapperUser(w).v.private_key, address[w], enc.val, 0, 1000000),
                  "block_number", "blockNumber", None)

\* A read-only accessor: abi_encode, then self.client.call(self.address, user, code).
Wrapper_read(w, name, method, params, user) ==
    LET o == Invocation(w, name, params)
        enc == abi_encode(WrapperAbi(w), method, params) IN
    IF enc.exc # "none" THEN Fails(o, enc.exc)
    ELSE IF address[w] = Unset THEN Fails(o, "AttributeError")
    ELSE Requests(o, "rpc", "call", List(<<call_params(address[w], user, enc.val)>>))

SimpleStorage_deploy ==
    /\ pc = "idle"
    /\ Requests(Signing(Invocation("SimpleStorage", "deploy", <<>>),
                        WrapperUser("SimpleStorage").v.private_key, None,
                        add_0x_prefix(SimpleStorageBin), 0, 1000000),
                "block_number", "blockNumber", None)

SimpleStorage_set(n) ==
    /\ pc = "idle"
    /\ Wrapper_transact("SimpleStorage", "set", "set", <<PyInt(n)>>)

SimpleStorage_get ==
    /\ pc = "idle"
    /\ Wrapper_read("SimpleStorage", "get", "get", <<>>, None)

Bnb_deploy ==
    /\ pc = "idle"
    /\ Requests(Signing(Invocation("Bnb", "deploy", <<>>),
                        WrapperUser("Bnb").v.private_key, None,
                        Concat(add_0x_prefix(BnbBin), BnbCtorData), 0, 5000000),
                "block_number", "blockNumber", None)

Bnb_owner ==
    /\ pc = "idle"
    /\ Wrapper_read("Bnb", "owner", "owner", <<>>, None)

Bnb_total_supply ==
    /\ pc = "idle"
    /\ Wrapper_read("Bnb", "total_supply", "totalSupply", <<>>, None)

Bnb_symbol ==
    /\ pc = "idle"
    /\ Wrapper_read("Bnb", "symbol", "symbol", <<>>, None)

Bnb_balance_of(addr) ==
    /\ pc = "idle"
    /\ Wrapper_read("Bnb", "balance_of", "balanceOf", <<addr>>, WrapperUser("Bnb"))

Bnb_freeze_of(addr) ==
    /\ pc = "idle"
    /\ Wrapper_read("Bnb", "freeze_of", "freezeOf", <<addr>>, WrapperUser("Bnb"))

Bnb_name ==
    /\ pc = "idle"
    /\ Wrapper_read("Bnb", "name", "name", <<>>, None)

Bnb_decimals ==
    /\ pc = "idle"
    /\ Wrapper_read("Bnb", "decimals", "decimals", <<>>, WrapperUser("Bnb"))

Bnb_transfer(to, value) ==
    /\ pc = "idle"
    /\ Wrapper_transact("Bnb", "transfer", "transfer", <<to, PyInt(value)>>)

(***************************************************************************)
(* Replies: the code that runs when a round trip returns                   *)
(***************************************************************************)
\* The reply to a method that makes one request and returns (lines 84-87 and
\* the method's own return statement).
RpcReply(resp) ==
    /\ pc = "rpc"
    /\ resp \in NodeReplies(sent[Len(sent)].method)
    /\ recv' = Append(recv, resp)
    /\ LET r == send_result(resp) IN
       IF r.exc # "none" THEN Finishes(r) ELSE Finishes(post_process(op, r.val))
    /\ UNCHANGED <<c_tx_version, address, op, i, h, tx, code, sent, lastReceipt>>
    /\ UNCHANGED <<dupVars, fabVars, cliVars, abiVars>>

\* The reply to blockNumber: block_number() returns; inside sign_tx the
\* transaction is built and signed, and a wrapper goes on to submit it
\* (sync_raw_transaction, line 146).
BlockNumberReply(resp, nonce) ==
    /\ pc = "block_number"
    /\ resp \in NodeReplies("blockNumber")
    /\ recv' = Append(recv, resp)
    /\ LET bn == block_number(send_result(resp)) IN
       IF op.name = "block_number"
       THEN /\ Finishes(bn)
            /\ UNCHANGED <<tx, code, sent>>
       ELSE LET s == sign_tx(op.sign.pk, op.sign.to, op.sign.data, op.sign.value,
                             op.sign.quota, bn, nonce, c_tx_version) IN
            IF s.exc # "none" \/ op.name = "sign_tx"
            THEN /\ Finishes([exc |-> s.exc, val |-> s.val])
                 /\ tx' = s.tx
                 /\ UNCHANGED <<code, sent>>
            ELSE /\ tx' = s.tx
                 /\ code' = s.val
                 /\ sent' = Append(sent, send_data("sendRawTransaction", List(<<s.val>>)))
                 /\ pc' = "send_raw"
                 /\ UNCHANGED <<ret, exc>>
    /\ UNCHANGED <<c_tx_version, address, op, i, h, lastReceipt>>
    /\ UNCHANGED <<dupVars, fabVars, cliVars, abiVars>>

\* sync_raw_transaction returns got to its caller, which runs to its end.
SyncReturns(got) ==
    LET a == IF op.obj \in Wrappers
             THEN after_sync(op, address[op.obj], got)
             ELSE [exc |-> "none", val |-> got, address |-> Unset] IN
    /\ Finishes([exc |-> a.exc, val |-> a.val])
    /\ address' = IF op.obj \in Wrappers
                  THEN [address EXCEPT ![op.obj] = a.address] ELSE address

\* The reply to sendRawTransaction: send_raw_transaction returns it; inside
\* sync_raw_transaction the hash is taken and the first poll is sent.
SendRawReply(resp) ==
    /\ pc = "send_raw"
    /\ resp \in NodeReplies("sendRawTransaction")
    /\ recv' = Append(recv, resp)
    /\ LET r == send_result(resp) IN
       IF r.exc # "none" \/ op.name = "send_raw_transaction"
       THEN /\ Finishes(r)
            /\ UNCHANGED <<h, sent, address>>
       ELSE LET hh == ack_hash(r.val) IN
            IF hh.exc # "none"
            THEN /\ Finishes(hh)
                 /\ UNCHANGED <<h, sent, address>>
            ELSE /\ h' = hh.val
                 /\ IF sync_has_attempt(0)
                    THEN /\ sent' = Append(sent, send_data("getTransactionReceipt",
                                                           List(<<hh.val>>)))
                         /\ pc' = "poll"
                         /\ UNCHANGED <<ret, exc, address>>
                    ELSE /\ SyncReturns(None)
                         /\ UNCHANGED sent
    /\ UNCHANGED <<c_tx_version, op, i, tx, code, lastReceipt>>
    /\ UNCHANGED <<dupVars, fabVars, cliVars, abiVars>>

\* The reply to a poll (line 149): a non-empty receipt ends sync_raw_transaction,
\* an empty one leads to the next poll or, after the last attempt, to None;
\* the caller of sync_raw_transaction then runs to its end.
PollReply(resp) ==
    /\ pc = "poll"
    /\ resp \in NodeReplies("getTransactionReceipt")
    /\ recv' = Append(recv, resp)
    /\ i' = i + 1
    /\ LET r == send_result(resp) IN
       IF r.exc # "none"
       THEN /\ Finishes(r)
            /\ UNCHANGED <<sent, address, lastReceipt>>
       ELSE IF ~sync_poll_ends(r.val) /\ sync_has_attempt(i + 1)
       THEN /\ sent' = Append(sent, send_data("getTransactionReceipt", List(<<h>>)))
            /\ UNCHANGED <<pc, ret, exc, address, lastReceipt>>
       ELSE /\ SyncReturns(IF sync_poll_ends(r.val) THEN r.val ELSE None)
            /\ lastReceipt' = IF op.obj \in Wrappers /\ op.name = "deploy" /\ Truthy(r.val)
                              THEN [lastReceipt EXCEPT ![op.obj] = r.val] ELSE lastReceipt
            /\ UNCHANGED sent
    /\ UNCHANGED <<c_tx_version, op, h, tx, code>>
    /\ UNCHANGED <<dupVars, fabVars, cliVars, abiVars>>

\* The invocation has ended; the caller goes on.
ReturnToCaller ==
    /\ pc = "done"
    /\ pc' = "idle"
    /\ op' = NoOp
    /\ i' = 0
    /\ h' = None
    /\ tx' = NoTx
    /\ code' = None
    /\ ret' = None
    /\ exc' = "none"
    /\ sent' = <<>>
    /\ recv' = <<>>
    /\ UNCHANGED <<c_tx_version, address, lastReceipt>>
    /\ UNCHANGED <<dupVars, fabVars, cliVars, abiVars>>

(***************************************************************************)
(* devtools/scripts/check_dup_dep.py                                       *)
(***************************************************************************)
\* Manifests glob may yield in one run.
MaxManifests == 3

\* Dependency names and version strings of the manifests.
DepNames == {"serde"}
\* The order in which .items() yields the keys of a table.
DepOrder == <<"serde">>
VersionStrings == {"1.0", "2.0"}
\* A key of a table: absent, a nested table (path / git dependency), or a version string.
Absent == "<absent>"
Nested == "<table>"
EntryValues == {Absent, Nested} \cup VersionStrings

\* A table of a manifest: whether the manifest has it, and its items.
Tables ==
    {[present |-> FALSE, items |-> [e \in DepNames |-> Absent]]}
        \cup {[present |-> TRUE, items |-> f] : f \in [DepNames -> EntryValues]}
\* toml.load(f): the two tables the script reads.
Manifests == [dependencies : Tables, dev : Tables]

\* A checker that records every pin in m, reported or not.
check_entry_overwrite(mm, oo, p, e, v) ==
    IF v = Nested THEN [m |-> mm, out |-> oo]
    ELSE IF mm[e] # <<>> /\ mm[e][2] # v
    THEN [m |-> [mm EXCEPT ![e] = <<p, v>>],
          out |-> Append(oo, [lfile |-> mm[e][1], name |-> e, lver |-> mm[e][2],
                              rfile |-> p, rver |-> v])]
    ELSE [m |-> [mm EXCEPT ![e] = <<p, v>>], out |-> oo]

\* Lines 11-16 (and 19-24): one item e = v of a table of manifest p.
\* The result is the dict m and the lines printed so far.
check_entry(mm, oo, p, e, v) ==
    IF v = Nested THEN [m |-> mm, out |-> oo]
    ELSE IF mm[e] # <<>> /\ mm[e][2] # v
    THEN [m |-> mm,
          out |-> Append(oo, [lfile |-> mm[e][1], name |-> e, lver |-> mm[e][2],
                              rfile |-> p, rver |-> v])]
    ELSE [m |-> [mm EXCEPT ![e] = <<p, v>>], out |-> oo]

RECURSIVE scan_table(_, _, _, _, _)
\* Lines 10 / 18: the loop over the items of a table, from key number k on.
scan_table(mm, oo, p, table, k) ==
    IF k > Len(DepOrder) THEN [m |-> mm, out |-> oo]
    ELSE IF table.items[DepOrder[k]] = Absent THEN scan_table(mm, oo, p, table, k + 1)
    ELSE LET r == check_entry(mm, oo, p, DepOrder[k], table.items[DepOrder[k]]) IN
         scan_table(r.m, r.out, p, table, k + 1)

\* Lines 8-24: one iteration of the loop over glob's paths, for the manifest c
\* at path p.  c['dependencies'] raises KeyError when the table is missing.
scan_manifest(mm, oo, p, c) ==
    IF ~c.dependencies.present THEN [exc |-> "KeyError", m |-> mm, out |-> oo]
    ELSE LET d == scan_table(mm, oo, p, c.dependencies, 1) IN
         IF ~c.dev.present THEN [exc |-> "none", m |-> d.m, out |-> d.out]
         ELSE LET v == scan_table(d.m, d.out, p, c.dev, 1) IN
              [exc |-> "none", m |-> v.m, out |-> v.out]

\* glob yields one more manifest; its path is its position in the scan.
ScanManifest(c) ==
    /\ dpc = "scan"
    /\ Len(files) < MaxManifests
    /\ files' = Append(files, c)
    /\ LET r == scan_manifest(m, out, Len(files) + 1, c) IN
       /\ m' = r.m
       /\ out' = r.out
       /\ dpc' = IF r.exc = "none" THEN "scan" ELSE "crashed"
    /\ UNCHANGED <<rpcVars, fabVars, cliVars, abiVars>>

\* glob is exhausted: the script ends.
ScanEnds ==
    /\ dpc = "scan"
    /\ dpc' = "done"
    /\ UNCHANGED <<m, out, files>>
    /\ UNCHANGED <<rpcVars, fabVars, cliVars, abiVars>>

(***************************************************************************)
(* devtools/fabric/fabfile.py                                              *)
(***************************************************************************)
hosts == <<"192.168.0.35", "192.168.0.36", "192.168.0.37", "192.168.0.38">>
HostSet == {hosts[k] : k \in 1..Len(hosts)}

\* What a host holds.  Files are "none", "old" (left by an earlier deployment)
\* or "new" (pushed by this run); config is the number of the config-bft file
\* that became config.toml (0: none) and whether this run pushed it.
FreshHost ==
    [dataDir |-> FALSE, binary |-> "none", executable |-> FALSE, version |-> "none",
     genesis |-> "none", config |-> <<0, "none">>, unitFile |-> "none",
     unitInstalled |-> "none", unitLoaded |-> "none", log |-> "none",
     running |-> FALSE, restarted |-> FALSE]
UsedHost ==
    [dataDir |-> TRUE, binary |-> "old", executable |-> TRUE, version |-> "old",
     genesis |-> "old", config |-> <<0, "old">>, unitFile |-> "old",
     unitInstalled |-> "old", unitLoaded |-> "old", log |-> "old",
     running |-> TRUE, restarted |-> FALSE]

\* One command of a task: run / put on a host, or local on the operator's machine.
Cmd(step, task, kind, hh, what) ==
    [step |-> step, task |-> task, kind |-> kind, host |-> hh, what |-> what]

update(step) == <<Cmd(step, "update", "local", "local", <<"build", 0>>)>>

RECURSIVE deploy_diff_from(_, _)
\* for i, h in enumerate(hosts, 1): local('scp ./config-bft-{i}.toml {h}:...')
deploy_diff_from(step, k) ==
    IF k > Len(hosts) THEN <<>>
    ELSE <<Cmd(step, "deploy_diff", "local", hosts[k], <<"scp config", k>>)>>
             \o deploy_diff_from(step, k + 1)
deploy_diff(step) == deploy_diff_from(step, 1)

deploy_common(step, hh) ==
    << Cmd(step, "deploy_common", "run", hh, <<"mkdir data", 0>>),
       Cmd(step, "deploy_common", "run", hh, <<"rm muta", 0>>),
       Cmd(step, "deploy_common", "put", hh, <<"muta", 0>>),
       Cmd(step, "deploy_common", "put", hh, <<"version", 0>>),
       Cmd(step, "deploy_common", "put", hh, <<"genesis.json", 0>>),
       Cmd(step, "deploy_common", "run", hh, <<"chmod +x muta", 0>>) >>

service(step, hh) ==
    << Cmd(step, "service", "put", hh, <<"muta.service", 0>>),
       Cmd(step, "service", "run", hh, <<"cp muta.service", 0>>),
       Cmd(step, "service", "run", hh, <<"daemon-reload", 0>>) >>

clear(step, hh) == <<Cmd(step, "clear", "run", hh, <<"rm data", 0>>)>>

dellog(step, hh) ==
    << Cmd(step, "dellog", "run", hh, <<"rm muta.log", 0>>),
       Cmd(step, "dellog", "run", hh, <<"touch muta.log", 0>>) >>

start(step, hh) == <<Cmd(step, "start", "run", hh, <<"systemctl start", 0>>)>>
stop(step, hh) == <<Cmd(step, "stop", "run", hh, <<"systemctl stop", 0>>)>>
restart(step, hh) == <<Cmd(step, "restart", "run", hh, <<"systemctl restart", 0>>)>>
status(step, hh) == <<Cmd(step, "status", "run", hh, <<"systemctl status", 0>>)>>

\* The commands of a host task, by name.
HostTask(task, step, hh) ==
    CASE task = "deploy_common" -> deploy_common(step, hh)
      [] task = "service" -> service(step, hh)
      [] task = "clear" -> clear(step, hh)
      [] task = "dellog" -> dellog(step, hh)
      [] task = "start" -> start(step, hh)
      [] task = "stop" -> stop(step, hh)
      [] task = "restart" -> restart(step, hh)
      [] task = "status" -> status(step, hh)

RECURSIVE execute_from(_, _, _)
\* execute(task, hosts=hosts): the task on one host after the other, in list order.
execute_from(task, step, k) ==
    IF k > Len(hosts) THEN <<>>
    ELSE HostTask(task, step, hosts[k]) \o execute_from(task, step, k + 1)
execute(task, step) == execute_from(task, step, 1)

deploy(step) == execute("deploy_common", step) \o deploy_diff(step)

\* An `all` that restarts the service before the log is truncated.
all_restart_early ==
    deploy("deploy") \o execute("service", "service") \o execute("clear", "clear")
        \o execute("restart", "restart") \o execute("dellog", "dellog")

all ==
    deploy("deploy") \o execute("service", "service") \o execute("clear", "clear")
        \o execute("dellog", "dellog") \o execute("restart", "restart")

\* The tasks `fab` is given, and the commands each runs.
FabTasks ==
    {"update", "deploy_diff", "deploy", "service", "clear", "dellog", "start", "stop",
     "restart", "status", "all"}
Program(task) ==
    CASE task = "all" -> all
      [] task = "deploy" -> deploy("deploy")
      [] task = "deploy_diff" -> deploy_diff("deploy_diff")
      [] task = "update" -> update("update")
      [] OTHER -> execute(task, task)

\* The effect of a command that succeeded on the host it addresses.
Effect(st, c) ==
    CASE c.what[1] = "mkdir data" -> [st EXCEPT !.dataDir = TRUE]
      [] c.what[1] = "rm muta" -> [st EXCEPT !.binary = "none", !.executable = FALSE]
      [] c.what[1] = "muta" -> [st EXCEPT !.binary = "new"]
      [] c.what[1] = "version" -> [st EXCEPT !.version = "new"]
      [] c.what[1] = "genesis.json" -> [st EXCEPT !.genesis = "new"]
      [] c.what[1] = "chmod +x muta" -> [st EXCEPT !.executable = TRUE]
      [] c.what[1] = "scp config" -> [st EXCEPT !.config = <<c.what[2], "new">>]
      [] c.what[1] = "muta.service" -> [st EXCEPT !.unitFile = "new"]
      [] c.what[1] = "cp muta.service" -> [st EXCEPT !.unitInstalled = st.unitFile]
      [] c.what[1] = "daemon-reload" -> [st EXCEPT !.unitLoaded = st.unitInstalled]
      [] c.what[1] = "rm data" -> [st EXCEPT !.dataDir = FALSE]
      [] c.what[1] = "rm muta.log" -> [st EXCEPT !.log = "none"]
      [] c.what[1] = "touch muta.log" ->
            [st EXCEPT !.log = IF st.log = "none" THEN "empty" ELSE st.log]
      [] c.what[1] = "systemctl start" -> [st EXCEPT !.running = TRUE]
      [] c.what[1] = "systemctl stop" -> [st EXCEPT !.running = FALSE]
      [] c.what[1] = "systemctl restart" -> [st EXCEPT !.running = TRUE, !.restarted = TRUE]
      [] OTHER -> st

\* `fab <task>`
FabInvoke(task) ==
    /\ fstate = "idle"
    /\ ftask' = task
    /\ fstate' = "running"
    /\ UNCHANGED <<fidx, host, flog>>
    /\ UNCHANGED <<rpcVars, dupVars, cliVars, abiVars>>

NextCmd == Program(ftask)[fidx + 1]

\* The next command succeeds.
Executes(kind) ==
    /\ fstate = "running"
    /\ fidx < Len(Program(ftask))
    /\ NextCmd.kind = kind
    /\ fidx' = fidx + 1
    /\ flog' = Append(flog, NextCmd)
    /\ host' = IF NextCmd.host \in HostSet
               THEN [host EXCEPT ![NextCmd.host] = Effect(host[NextCmd.host], NextCmd)]
               ELSE host
    /\ UNCHANGED <<ftask, fstate>>
    /\ UNCHANGED <<rpcVars, dupVars, cliVars, abiVars>>

FabRun == Executes("run")
FabPut == Executes("put")
FabLocal == Executes("local")

\* The next command fails: Fabric aborts the run.
FabAborts ==
    /\ fstate = "running"
    /\ fidx < Len(Program(ftask))
    /\ fstate' = "aborted"
    /\ UNCHANGED <<ftask, fidx, host, flog>>
    /\ UNCHANGED <<rpcVars, dupVars, cliVars, abiVars>>

\* The last command is done.
FabEnds ==
    /\ fstate = "running"
    /\ fidx = Len(Program(ftask))
    /\ fstate' = "done"
    /\ UNCHANGED <<ftask, fidx, host, flog>>
    /\ UNCHANGED <<rpcVars, dupVars, cliVars, abiVars>>

(***************************************************************************)
(* tests/test_cli.py run as a script: the `call` helper and the test steps *)
(***************************************************************************)
\* Exit statuses of the external tool, as subprocess.getstatusoutput reports them.
ToolStatuses == {0, 1, 2}
\* The captured output of the tool: a str that is a JSON document, or is none.
JsonText(doc) == [kind |-> "text", v |-> [json |-> TRUE, doc |-> doc]]
Garbage == [kind |-> "text", v |-> [json |-> FALSE, doc |-> None]]
ToolOutputs ==
    {JsonText(Obj([result |-> PyInt(42)])), JsonText(Obj([error |-> None])), Garbage}

\* sys.exit(arg): None is status 0, an int is the status (its low byte), any
\* other object is printed to stderr and the status is 1.
sys_exit(arg) ==
    CASE arg.kind = "none" -> [status |-> 0, stderr |-> None]
      [] arg.kind = "int" -> [status |-> arg.v % 256, stderr |-> None]
      [] OTHER -> [status |-> 1, stderr |-> arg]
\* An exception nobody catches: the interpreter prints the traceback and the
\* status is 1.
Traceback(e) == [kind |-> "traceback", v |-> e]
uncaught(e) == [status |-> 1, stderr |-> Traceback(e)]

\* json.loads(r)['result']
json_result(r) ==
    IF ~r.v.json THEN Raise("JSONDecodeError")
    ELSE IF r.v.doc.kind = "object" /\ "result" \in DOMAIN r.v.doc.v
         THEN Return(r.v.doc.v.result)
         ELSE Raise("KeyError")

\* call(command), given the status c and the output r of the command: what the
\* helper does to the process (exit) or returns to the test.
call(c, r) ==
    IF c # 0 THEN [exit |-> TRUE, end |-> sys_exit(r), ran |-> <<>>]
    ELSE LET got == json_result(r)
         IN  IF got.exc # "none"
             THEN [exit |-> TRUE, end |-> uncaught(got.exc), ran |-> <<"parse">>]
             ELSE [exit |-> FALSE, end |-> [status |-> -1, stderr |-> None],
                   ran |-> <<"parse">>]

\* The statements of the tests, in the order the __main__ block runs them:
\* "call" is a use of the helper, "client" a use of pymuta, "assert" an assert.
Steps(test, kinds) == [k \in 1..Len(kinds) |-> [test |-> test, kind |-> kinds[k]]]
test_peer_count == Steps("test_peer_count", <<"call", "assert">>)
test_block_number == Steps("test_block_number", <<"call", "call", "assert">>)
test_transfer_balance ==
    Steps("test_transfer_balance",
          <<"client", "client", "client", "call", "client", "client", "client",
            "assert", "assert", "assert">>)
test_get_block_by_hash == Steps("test_get_block_by_hash", <<"call", "call", "assert">>)
test_get_block_by_number ==
    Steps("test_get_block_by_number",
          <<"client", "client", "call", "assert", "assert",
            "call", "assert", "assert", "assert">>)
test_get_block_include_tx_with_data ==
    Steps("test_get_block_include_tx_with_data",
          <<"client", "client", "call", "assert", "assert", "assert", "assert">>)
test_get_logs ==
    Steps("test_get_logs",
          <<"client", "client", "assert", "client", "assert", "client", "assert",
            "client", "assert", "client", "client", "assert", "client", "assert",
            "call", "assert", "assert", "assert", "assert", "assert",
            "call", "assert", "assert", "assert", "assert", "assert">>)
test_call ==
    Steps("test_call",
          <<"client", "client", "call", "assert", "client", "call", "assert">>)
test_get_transaction ==
    Steps("test_get_transaction", <<"client", "client", "call", "assert", "assert">>)
test_get_code == Steps("test_get_code", <<"client", "call", "assert">>)
test_get_abi == Steps("test_get_abi", <<>>)
test_get_block_header == Steps("test_get_block_header", <<"call">>)
test_get_storage_at == Steps("test_get_storage_at", <<"client", "client", "call", "assert">>)
test_get_transaction_count ==
    Steps("test_get_transaction_count", <<"call", "client", "client", "call", "assert">>)
test_get_state_proof == Steps("test_get_state_proof", <<"call", "assert">>)
Main ==
    test_peer_count \o test_block_number \o test_transfer_balance
    \o test_get_block_by_hash \o test_get_block_by_number
    \o test_get_block_include_tx_with_data \o test_get_logs \o test_call
    \o test_get_transaction \o test_get_code \o test_get_abi
    \o test_get_block_header \o test_get_storage_at
    \o test_get_transaction_count \o test_get_state_proof

Event(kind, c) == [test |-> Main[tidx + 1].test, kind |-> kind, status |-> c]
AtStep(kind) == tpc = "running" /\ tidx < Len(Main) /\ Main[tidx + 1].kind = kind
Exits(end) == tpc' = "exited" /\ tstatus' = end.status /\ tstderr' = end.stderr /\ tidx' = tidx
GoesOn == tpc' = "running" /\ tidx' = tidx + 1 /\ UNCHANGED <<tstatus, tstderr>>

\* python test_cli.py
CliMain ==
    /\ tpc = "idle"
    /\ tpc' = "running"
    /\ UNCHANGED <<tidx, tstatus, tstderr, tlog>>
    /\ UNCHANGED <<rpcVars, dupVars, fabVars, abiVars>>

\* A test uses call(command); the tool ends with status c and output r.
CliCall(c, r) ==
    /\ AtStep("call")
    /\ LET o == call(c, r)
       IN  /\ tlog' = tlog \o <<Event("command", c)>>
                           \o [k \in 1..Len(o.ran) |-> Event(o.ran[k], 0)]
           /\ IF o.exit THEN Exits(o.end) ELSE GoesOn
    /\ UNCHANGED <<rpcVars, dupVars, fabVars, abiVars>>

\* An assert statement, whose condition holds or not.
CliAssert(holds) ==
    /\ AtStep("assert")
    /\ tlog' = Append(tlog, Event("assert", 0))
    /\ IF holds THEN GoesOn ELSE Exits(uncaught("AssertionError"))
    /\ UNCHANGED <<rpcVars, dupVars, fabVars, abiVars>>

\* A statement using the pymuta client, which returns or raises e.
CliClient(e) ==
    /\ AtStep("client")
    /\ tlog' = Append(tlog, Event("client", 0))
    /\ IF e = "none" THEN GoesOn ELSE Exits(uncaught(e))
    /\ UNCHANGED <<rpcVars, dupVars, fabVars, abiVars>>

\* The __main__ block is through: the interpreter exits with status 0.
CliEnds ==
    /\ tpc = "running" /\ tidx = Len(Main)
    /\ Exits(sys_exit(None))
    /\ UNCHANGED tlog
    /\ UNCHANGED <<rpcVars, dupVars, fabVars, abiVars>>

IdleCli ==
    /\ tpc = "idle"
    /\ tidx = 0
    /\ tstatus = -1
    /\ tstderr = None
    /\ tlog = <<>>

(***************************************************************************)
(* abi_encode / abi_decode applied to interface documents                  *)
(***************************************************************************)
\* Members an interface document may hold, documents of at most two members,
\* and the method names asked for ("transfer" is in none of the documents).
AbiMembers ==
    {[name |-> "set", inputs |-> <<"uint256">>, outputs |-> <<>>],
     [name |-> "get", inputs |-> <<>>, outputs |-> <<"uint256">>],
     [name |-> "balanceOf", inputs |-> <<"address">>, outputs |-> <<"uint256">>]}
AbiDocs == {<<>>} \cup {<<a>> : a \in AbiMembers} \cup {<<a, b>> : a, b \in AbiMembers}
MethodNames == {"set", "get", "balanceOf", "transfer"}
NoResult == [fn |-> "none", arg |-> None, res |-> Return(None)]

\* abi_encode(abi, method, params) is called and returns or raises.
AbiEncode(params) ==
    /\ apc = "ready"
    /\ aout' = [fn |-> "abi_encode", arg |-> List(params),
                res |-> abi_encode(ain.abi, ain.method, params)]
    /\ apc' = "done"
    /\ UNCHANGED ain
    /\ UNCHANGED <<rpcVars, dupVars, fabVars, cliVars>>

\* abi_decode(abi, method, rets) is called and returns or raises.
AbiDecode(rets) ==
    /\ apc = "ready"
    /\ aout' = [fn |-> "abi_decode", arg |-> rets,
                res |-> abi_decode(ain.abi, ain.method, rets)]
    /\ apc' = "done"
    /\ UNCHANGED ain
    /\ UNCHANGED <<rpcVars, dupVars, fabVars, cliVars>>

IdleAbi ==
    /\ apc = "idle"
    /\ ain = [abi |-> <<>>, method |-> "none"]
    /\ aout = NoResult

(***************************************************************************)
(* The client's specification                                              *)
(***************************************************************************)
Versions == {0, 1}
SignTos == {None, Text(<<>>), user1.v.address, Malformed}
SignDatas == {Text(<<>>), Hex(<<1, 2, 3, 4>>), Malformed}
Envelopes == {Hex(<<1, 2>>)}

InitClient ==
    /\ address = [w \in Wrappers |-> Unset]
    /\ lastReceipt = [w \in Wrappers |-> None]
    /\ pc = "idle"
    /\ op = NoOp
    /\ i = 0
    /\ h = None
    /\ tx = NoTx
    /\ code = None
    /\ ret = None
    /\ exc = "none"
    /\ sent = <<>>
    /\ recv = <<>>

InitDup ==
    /\ m = [e \in DepNames |-> <<>>]
    /\ out = <<>>
    /\ files = <<>>
    /\ dpc = "scan"

\* No fab task was given; the hosts are as an earlier deployment left them.
IdleFab ==
    /\ ftask = "none"
    /\ fidx = 0
    /\ fstate = "idle"
    /\ flog = <<>>
FreshHosts == host = [x \in HostSet |-> FreshHost]

\* c_tx_version = 0 is what the module sets; 1 is the other layout sign_tx supports.
InitRpc ==
    c_tx_version \in Versions /\ InitClient /\ InitDup /\ IdleFab /\ FreshHosts /\ IdleCli /\ IdleAbi
InitDupSpec ==
    c_tx_version = 0 /\ InitClient /\ InitDup /\ IdleFab /\ FreshHosts /\ IdleCli /\ IdleAbi
InitFab ==
    /\ c_tx_version = 0 /\ InitClient /\ InitDup /\ IdleFab /\ IdleCli /\ IdleAbi
    /\ host \in [HostSet -> {FreshHost, UsedHost}]

ClientInvoke ==
    \/ \E name \in TestedProofAndFilterMethods : Client_getattr(name)
    \/ \E method \in {"ping", "getStateProof"}, params \in {None, List(<<user0.v.address, KeyWord, Latest>>)} :
          Client_send(method, params)
    \/ Client_block_number
    \/ \E to \in ContractAddresses, user \in {None, user0}, data \in {Text(<<>>), Hex(<<>>), Hex(<<0, 2>>)} :
          Client_call(to, user, data)
    \/ \E user \in Accounts, bn \in Tags : Client_get_balance(user, bn)
    \/ \E addr \in ContractAddresses, bn \in Tags : Client_get_code(addr, bn)
    \/ \E include_tx \in {PyBool(FALSE), PyBool(TRUE)} : Client_get_block_by_hash(TxHash, include_tx)
    \/ \E bn \in Tags : Client_get_block_header(bn)
    \/ \E bn \in Tags, include_tx \in {PyBool(FALSE), PyBool(TRUE)} :
          Client_get_block_by_number(bn, include_tx)
    \/ Client_get_logs(Obj([fromBlock |-> Hex(<<0>>)]))
    \/ \E addr \in ContractAddresses, bn \in Tags : Client_get_storage_at(addr, KeyWord, bn)
    \/ Client_get_transaction(TxHash)
    \/ \E user \in Accounts, bn \in Tags : Client_get_transaction_count(user.v.address, bn)
    \/ Client_get_transaction_receipt(TxHash)
    \/ Client_ping
    \/ Client_peer_count
    \/ \E data \in Envelopes : Client_send_raw_transaction(data)
    \/ \E data \in Envelopes : Client_sync_raw_transaction(data)
    \/ \E to \in SignTos, data \in SignDatas, value \in {0, 10} :
          Client_sign_tx(user1.v.private_key, to, data, value, 100000)

WrapperInvoke ==
    \/ SimpleStorage_deploy
    \/ \E n \in {42, 15} : SimpleStorage_set(n)
    \/ SimpleStorage_get
    \/ Bnb_deploy
    \/ Bnb_owner
    \/ Bnb_total_supply
    \/ Bnb_symbol
    \/ \E a \in Accounts : Bnb_balance_of(a.v.address)
    \/ \E a \in Accounts : Bnb_freeze_of(a.v.address)
    \/ Bnb_name
    \/ Bnb_decimals
    \/ Bnb_transfer(user1.v.address, 10)

Reply ==
    \/ \E resp \in NodeReplies("call") \cup NodeReplies("getBalance")
                   \cup NodeReplies("getTransactionCount") \cup NodeReplies("ping") :
          RpcReply(resp)
    \/ \E resp \in NodeReplies("blockNumber"), nonce \in Nonces : BlockNumberReply(resp, nonce)
    \/ \E resp \in NodeReplies("sendRawTransaction") : SendRawReply(resp)
    \/ \E resp \in NodeReplies("getTransactionReceipt") : PollReply(resp)

NextRpc ==
    \/ ClientInvoke
    \/ WrapperInvoke
    \/ Reply
    \/ ReturnToCaller

SpecRpc == InitRpc /\ [][NextRpc]_vars

\* Every round trip returns and the caller goes on: the steps of an invocation
\* are taken as long as one is enabled.
FairSpecRpc == SpecRpc /\ WF_vars(Reply)

NextDup ==
    \/ \E c \in Manifests : ScanManifest(c)
    \/ ScanEnds

SpecDup == InitDupSpec /\ [][NextDup]_vars

NextFab ==
    \/ \E task \in FabTasks : FabInvoke(task)
    \/ FabRun
    \/ FabPut
    \/ FabLocal
    \/ FabAborts
    \/ FabEnds

SpecFab == InitFab /\ [][NextFab]_vars

InitCli == InitDupSpec

NextCli ==
    \/ CliMain
    \/ \E c \in ToolStatuses, r \in ToolOutputs : CliCall(c, r)
    \/ \E holds \in BOOLEAN : CliAssert(holds)
    \/ \E e \in {"none", "TransportFailure", "TypeError"} : CliClient(e)
    \/ CliEnds

SpecCli == InitCli /\ [][NextCli]_vars

\* The codec is given any document and any method name.
InitAbi ==
    /\ c_tx_version = 0 /\ InitClient /\ InitDup /\ IdleFab /\ FreshHosts /\ IdleCli
    /\ apc = "ready"
    /\ ain \in [abi : AbiDocs, method : MethodNames]
    /\ aout = NoResult

NextAbi ==
    \/ \E params \in {<<>>, <<PyInt(42)>>, <<user1.v.address>>} : AbiEncode(params)
    \/ \E rets \in {Hex(<<0, 2>>), Hex(<<>>), Malformed} : AbiDecode(rets)

SpecAbi == InitAbi /\ [][NextAbi]_vars

(***************************************************************************)
(* Vocabulary of the properties of the client                              *)
(***************************************************************************)
\* Positions of the requests of one wire method among those sent.
SentOf(method) == {k \in 1..Len(sent) : sent[k].method = method}
\* The reply at position k carries a result.
HasResult(k) == k <= Len(recv) /\ recv[k].kind = "body" /\ "result" \in DOMAIN recv[k].v
\* An absent-equivalent receipt: null or an empty object.
EmptyReceipt(r) == r.kind = "none" \/ (r.kind = "object" /\ DOMAIN r.v = {})
\* The poll at position k was answered with an empty / a non-empty receipt.
EmptyPoll(k) ==
    sent[k].method = "getTransactionReceipt" /\ HasResult(k) /\ EmptyReceipt(recv[k].v.result)
ReceiptPoll(k) ==
    sent[k].method = "getTransactionReceipt" /\ HasResult(k) /\ ~EmptyReceipt(recv[k].v.result)
\* The invocation in progress is Client.sync_raw_transaction itself.
IsSync == op.obj = "Client" /\ op.name = "sync_raw_transaction"
\* Invocations whose return value is the one sync_raw_transaction returned.
ReturnsSync == IsSync \/ (op.obj \in Wrappers /\ op.name \in {"deploy", "set", "transfer"})
\* The read-only accessors of the wrappers.
IsReader ==
    \/ op.obj = "SimpleStorage" /\ op.name = "get"
    \/ op.obj = "Bnb" /\ op.name \in {"owner", "total_supply", "symbol", "balance_of",
                                      "freeze_of", "name", "decimals"}

(***************************************************************************)
(* C1: sync_raw_transaction submits the envelope with sendRawTransaction,  *)
(* then polls getTransactionReceipt for the returned hash; when polls      *)
(* 1..k-1 were empty and poll k (k <= 64) is non-empty, the result is      *)
(* exactly the receipt of poll k and no request is issued after it.        *)
(***************************************************************************)
C1_FirstReceiptReturned ==
    ReturnsSync =>
        /\ \A k \in SentOf("getTransactionReceipt") :
              \E j \in SentOf("sendRawTransaction") :
                 /\ j < k
                 /\ sent[j].params = List(<<IF IsSync THEN op.args[1] ELSE code>>)
                 /\ HasResult(j)
                 /\ sent[k].params = List(<<recv[j].v.result.v.hash>>)
        /\ \A k \in 1..Len(recv) :
              (ReceiptPoll(k) /\ \A j \in SentOf("getTransactionReceipt") : j < k => EmptyPoll(j))
                 => /\ Cardinality({j \in SentOf("getTransactionReceipt") : j <= k}) <= 64
                    /\ Len(sent) = k
                    /\ pc = "done"
                    /\ exc = "none"
                    /\ ret = recv[k].v.result

\* A receipt arrived at the third poll and was returned.
C1_Witness ==
    /\ IsSync
    /\ pc = "done"
    /\ Cardinality(SentOf("getTransactionReceipt")) = 3
    /\ ReceiptPoll(Len(recv))
    /\ ret = recv[Len(recv)].v.result

(***************************************************************************)
(* C2: provided every round trip returns, sync_raw_transaction terminates  *)
(* having issued exactly one sendRawTransaction and at most 64             *)
(* getTransactionReceipt requests; it returns None exactly when all 64     *)
(* polls returned an empty receipt, and then raises no error.              *)
(***************************************************************************)
C2_Counts ==
    IsSync =>
        /\ Cardinality(SentOf("sendRawTransaction")) = 1
        /\ Cardinality(SentOf("getTransactionReceipt")) <= 64
        /\ Len(sent) = 1 + Cardinality(SentOf("getTransactionReceipt"))
        /\ pc = "done" =>
              ((exc = "none" /\ ret = None)
                 <=> /\ Cardinality(SentOf("getTransactionReceipt")) = 64
                     /\ \A k \in SentOf("getTransactionReceipt") : EmptyPoll(k))

C2_TerminatesBounded ==
    /\ []C2_Counts
    /\ (IsSync /\ pc # "done") ~> (IsSync /\ pc = "done")

\* The timeout: 64 empty polls, None returned, nothing raised.
C2_Witness ==
    /\ IsSync
    /\ pc = "done"
    /\ Cardinality(SentOf("getTransactionReceipt")) = 64
    /\ \A k \in SentOf("getTransactionReceipt") : EmptyPoll(k)
    /\ ret = None
    /\ exc = "none"

(***************************************************************************)
(* C3: a wrapper's address is unset until a deploy has obtained a receipt, *)
(* and thereafter equals the contractAddress of the most recent deploy     *)
(* that obtained one (a deploy whose wait times out fails and leaves the   *)
(* address as it was); every other method invoked while the address is     *)
(* unset fails without sending any request.                                *)
(***************************************************************************)
C3_AddressFollowsDeploy ==
    /\ \A w \in Wrappers :
          address[w] = IF lastReceipt[w] = None THEN Unset
                       ELSE lastReceipt[w].v.contractAddress
    /\ (op.obj \in Wrappers /\ op.name = "deploy" /\ pc = "done"
          /\ (\A k \in 1..Len(recv) : ~ReceiptPoll(k)))
          => exc # "none"
    /\ (op.obj \in Wrappers /\ op.name # "deploy" /\ address[op.obj] = Unset)
          => (pc = "done" /\ exc # "none" /\ sent = <<>>)

\* A deploy timed out after an earlier deploy had succeeded: it failed and the
\* address is still the earlier one.
C3_Witness ==
    /\ op.obj = "Bnb" /\ op.name = "deploy" /\ pc = "done"
    /\ Cardinality(SentOf("getTransactionReceipt")) = 64
    /\ \A k \in SentOf("getTransactionReceipt") : EmptyPoll(k)
    /\ exc = "TypeError"
    /\ address["Bnb"] \in ContractAddresses
    /\ address["SimpleStorage"] = Unset

C4_ReadOnlyInv ==
    IsReader =>
        /\ Len(sent) = IF address[op.obj] = Unset THEN 0 ELSE 1
        /\ \A k \in 1..Len(sent) :
              /\ sent[k].method = "call"
              /\ sent[k].params.v[1].v.to = address[op.obj]
              /\ op.obj = "SimpleStorage" => "from" \notin DOMAIN sent[k].params.v[1].v

RunsSignTx == op.sign # NoSign

C5_ValidUntilBlock ==
    RunsSignTx =>
        /\ Cardinality(SentOf("blockNumber")) = 1
        /\ sent[1].method = "blockNumber"
        /\ tx # NoTx =>
              /\ HasResult(1)
              /\ tx.valid_until_block = HexToInt(recv[1].v.result.v.s) + 16
        /\ (op.name = "sign_tx" /\ pc = "done" /\ exc = "none") =>
              /\ tx # NoTx
              /\ ret.kind = "signed"
              /\ ret.v.transaction = tx
        /\ (Len(recv) >= 1 /\ ~HasResult(1)) =>
              /\ pc = "done"
              /\ exc = (IF recv[1].kind = "failure" THEN "ConnectionError" ELSE "KeyError")
              /\ ret = None
              /\ tx = NoTx
              /\ Len(sent) = 1

\* sign_tx returned an envelope whose window ends at 0x10 + 16.
C5_Witness ==
    /\ op.name = "sign_tx" /\ pc = "done" /\ exc = "none"
    /\ recv[1] = Body(Hex(<<1, 0>>))
    /\ ret.v.transaction.valid_until_block = 32

(***************************************************************************)
(* C6: get_transaction_count returns an integer parsed from the node's hex *)
(* result (as block_number and get_balance do), so that counts taken       *)
(* before and after one mined transaction differ by 1 as integers.         *)
(***************************************************************************)
C6_CountIsParsedInteger ==
    (op.obj = "Client" /\ op.name = "get_transaction_count" /\ pc = "done" /\ HasResult(1))
        => /\ exc = "none"
           /\ ret = PyInt(HexToInt(recv[1].v.result.v.s))

(***************************************************************************)
(* C7: Client.send is one pass-through round trip: one POST (jsonrpc       *)
(* "2.0", id 1) and no retry; the response's `result` is returned          *)
(* unchanged, a domain-error object in `result` included; a transport      *)
(* failure propagates to the caller.                                       *)
(***************************************************************************)
\* Invocations that return what their single send returned.
ReturnsSend ==
    /\ op.obj = "Client"
    /\ op.name \in {"send", "call", "get_code", "get_block_by_hash", "get_block_header",
                    "get_block_by_number", "get_logs", "get_storage_at", "get_transaction",
                    "get_transaction_receipt", "ping", "peer_count", "send_raw_transaction"}

C7_SendPassThrough ==
    /\ Len(recv) <= Len(sent) /\ Len(sent) <= Len(recv) + 1
    /\ \A k \in 1..Len(sent) : sent[k].jsonrpc = "2.0" /\ sent[k].id = 1
    /\ \A k \in 1..Len(recv) :
          recv[k].kind = "failure" =>
              (k = Len(sent) /\ pc = "done" /\ exc = "ConnectionError" /\ ret = None)
    /\ (ReturnsSend /\ pc # "idle") => Len(sent) = 1
    /\ (ReturnsSend /\ pc = "done" /\ HasResult(1)) =>
          (exc = "none" /\ ret = recv[1].v.result)

\* send returned the node's domain-error object as data.
C7_Witness ==
    /\ op.obj = "Client" /\ op.name = "send" /\ pc = "done"
    /\ sent[1].method = "getStateProof"
    /\ exc = "none"
    /\ ret = DomainError
    /\ ret.v.message = "StateProofNotFoundError"

(***************************************************************************)
(* C8: the client provides new_block_filter, new_filter,                   *)
(* get_filter_changes, get_state_proof and get_transaction_proof; each     *)
(* issues exactly one request with the corresponding wire method and       *)
(* returns its result.                                                     *)
(***************************************************************************)
WireName(name) ==
    CASE name = "get_state_proof" -> "getStateProof"
      [] name = "get_transaction_proof" -> "getTransactionProof"
      [] name = "new_block_filter" -> "newBlockFilter"
      [] name = "new_filter" -> "newFilter"
      [] name = "get_filter_changes" -> "getFilterChanges"
      [] OTHER -> "?"

C8_ProofAndFilterMethods ==
    (op.obj = "Client" /\ op.name \in TestedProofAndFilterMethods /\ pc = "done") =>
        /\ Len(sent) = 1
        /\ sent[1].method = WireName(op.name)
        /\ HasResult(1) => (exc = "none" /\ ret = recv[1].v.result)

(***************************************************************************)
(* Vocabulary of the properties of the dependency checker                  *)
(***************************************************************************)
\* The tables of manifest c that pin e to a plain version string, in scan order.
PinTables(c, e) ==
    SelectSeq(<<c.dependencies, c.dev>>,
              LAMBDA t : t.present /\ t.items[e] \in VersionStrings)
\* The version strings manifest c pins e to.
PinVersions(c, e) ==
    {t.items[e] : t \in {u \in {c.dependencies, c.dev} :
                            u.present /\ u.items[e] \in VersionStrings}}
\* The lines printed for the name e.
LinesOf(e) == SelectSeq(out, LAMBDA l : l.name = e)
DupLine(e, v1, v2) == [lfile |-> 1, name |-> e, lver |-> v1, rfile |-> 2, rver |-> v2]

StepRank(step) ==
    CASE step = "deploy" -> 1
      [] step = "service" -> 2
      [] step = "clear" -> 3
      [] step = "dellog" -> 4
      [] step = "restart" -> 5
      [] OTHER -> 0
\* Some command of the step has been executed.
Started(step) == \E k \in 1..Len(flog) : flog[k].step = step
HostIndex(hh) == CHOOSE k \in 1..Len(hosts) : hosts[k] = hh
\* What each step of `all` leaves on a host.
Deployed(hh) ==
    /\ host[hh].binary = "new" /\ host[hh].executable
    /\ host[hh].version = "new"
    /\ host[hh].genesis = "new"
    /\ host[hh].config = <<HostIndex(hh), "new">>
Serviced(hh) ==
    /\ host[hh].unitFile = "new" /\ host[hh].unitInstalled = "new"
    /\ host[hh].unitLoaded = "new"
Cleared(hh) == ~host[hh].dataDir
LogTruncated(hh) == host[hh].log = "empty"

(***************************************************************************)
(* C10: `all` runs deploy, service, clear, dellog, restart in that order   *)
(* across the four hosts, each step finishing on every host before the     *)
(* next starts on any host; so no host's service is restarted before the   *)
(* host has the binary, the version file, the genesis file, its own        *)
(* numbered config file and the service unit, its data directory removed   *)
(* and its log truncated.                                                  *)
(***************************************************************************)
C10_AllOrdered ==
    ftask = "all" =>
        /\ Len(hosts) = 4
        /\ \A j, k \in 1..Len(flog) :
              j < k => StepRank(flog[j].step) <= StepRank(flog[k].step)
        /\ \A k \in 1..Len(flog) : StepRank(flog[k].step) >= 1
        /\ Started("service") => \A hh \in HostSet : Deployed(hh)
        /\ Started("clear") => \A hh \in HostSet : Deployed(hh) /\ Serviced(hh)
        /\ Started("dellog") => \A hh \in HostSet : Deployed(hh) /\ Serviced(hh) /\ Cleared(hh)
        /\ Started("restart") =>
              \A hh \in HostSet :
                 Deployed(hh) /\ Serviced(hh) /\ Cleared(hh) /\ LogTruncated(hh)
        /\ \A hh \in HostSet :
              host[hh].restarted =>
                 Deployed(hh) /\ Serviced(hh) /\ Cleared(hh) /\ LogTruncated(hh)
        /\ fstate = "done" => \A hh \in HostSet : host[hh].restarted

\* `all` ran to its end on hosts of which one held an earlier deployment.
C10_Witness ==
    /\ ftask = "all" /\ fstate = "done"
    /\ Len(flog) = 56
    /\ \A hh \in HostSet : host[hh].restarted /\ host[hh].running
    /\ host[hosts[3]].config = <<3, "new">>
    /\ host[hosts[3]].log = "empty"


(***************************************************************************)
(* Vocabulary of the properties of the CLI-driven test script              *)
(***************************************************************************)
\* The k-th thing that ran was a tool invocation that ended with a non-zero status.
FailedCommand(k) == tlog[k].kind = "command" /\ tlog[k].status # 0

(***************************************************************************)
(* C11: when the tool invocation made by the `call` helper returns a       *)
(* non-zero exit status, the test process exits immediately with that same *)
(* status: no JSON parsing, no assertion and no later test step runs after *)
(* the failed invocation.                                                  *)
(***************************************************************************)
C11_ExitsWithToolStatus ==
    \A k \in 1..Len(tlog) :
        FailedCommand(k) =>
            /\ k = Len(tlog)
            /\ tpc = "exited"
            /\ tstatus = tlog[k].status

\* What the script does instead: it stops at once, but the status is the one
\* sys.exit gives for a str argument, 1, and the tool's output goes to stderr.
C11_AbortsWithStatusOne ==
    \A k \in 1..Len(tlog) :
        FailedCommand(k) =>
            /\ k = Len(tlog)
            /\ tpc = "exited"
            /\ tstatus = 1
            /\ tstderr \in ToolOutputs

(***************************************************************************)
(* Vocabulary of the properties of sign_tx's arguments                     *)
(***************************************************************************)
\* A non-empty str that bytes.fromhex cannot decode once the prefix is off.
MalformedHex(x) ==
    x.kind = "str" /\ Len(x.v.s) > 0 /\ (~IsHexDigits(x.v.s) \/ Len(x.v.s) % 2 # 0)
\* A Client.sign_tx invocation has ended, and its height query had succeeded.
SignTxEnded ==
    /\ op.obj = "Client" /\ op.name = "sign_tx" /\ pc = "done"
    /\ Len(recv) = 1 /\ block_number(send_result(recv[1])).exc = "none"

(***************************************************************************)
(* C12: sign_tx fails with an invalid-input error, returning no signed     *)
(* envelope, whenever `to` or the data contains malformed hex, for every   *)
(* transaction version and for both arguments.                             *)
(***************************************************************************)
C12_MalformedHexRejected ==
    (SignTxEnded /\ (MalformedHex(op.sign.to) \/ MalformedHex(op.sign.data)))
        => /\ exc = "ValueError"
           /\ ret = None

\* What sign_tx does: the data is decoded with either version, `to` with
\* version 1 only; with version 0 a malformed `to` is signed as it is given.
C12_RejectedWhereDecoded ==
    SignTxEnded =>
        IF MalformedHex(op.sign.data) \/ (c_tx_version = 1 /\ MalformedHex(op.sign.to))
        THEN exc = "ValueError" /\ ret = None /\ tx = NoTx
        ELSE /\ exc = "none" /\ ret.kind = "signed"
             /\ (c_tx_version = 0 /\ MalformedHex(op.sign.to)) => ret.v.transaction.to = op.sign.to

(***************************************************************************)
(* C13: every transaction record sign_tx builds populates exactly one of   *)
(* the two destination / chain-id field pairs, the one of its version:     *)
(* with version 0 only to / chain_id may be set and to_v1 / chain_id_v1    *)
(* stay unset, with version 1 the reverse; when `to` is empty or absent    *)
(* (contract creation, as in the wrappers' deploy) no destination field of *)
(* either version is set, and the chain id of the version still is.        *)
(***************************************************************************)
C13_OneFieldPairPerVersion ==
    (RunsSignTx /\ tx # NoTx) =>
        /\ tx.version = c_tx_version
        /\ tx.version = 0 =>
              /\ tx.chain_id = 1
              /\ tx.chain_id_v1 = EmptyTx.chain_id_v1 /\ tx.to_v1 = EmptyTx.to_v1
        /\ tx.version = 1 =>
              /\ tx.chain_id_v1 = ToBytesBE(1, 32)
              /\ tx.chain_id = EmptyTx.chain_id /\ tx.to = EmptyTx.to
        /\ ~Truthy(op.sign.to) =>
              tx.to = EmptyTx.to /\ tx.to_v1 = EmptyTx.to_v1
        /\ (op.obj \in Wrappers /\ op.name = "deploy") => ~Truthy(op.sign.to)

\* A deploy built its contract-creation record with the version-0 layout.
C13_Witness ==
    /\ op.obj = "SimpleStorage" /\ op.name = "deploy"
    /\ RunsSignTx /\ tx # NoTx
    /\ tx.version = 0 /\ tx.chain_id = 1
    /\ tx.to = EmptyTx.to /\ tx.to_v1 = EmptyTx.to_v1

(***************************************************************************)
(* Vocabulary of the properties of the dependency version map              *)
(***************************************************************************)
\* The manifests scanned so far that pin e to a version string.
Pinners(e) == {k \in 1..Len(files) : PinTables(files[k], e) # <<>>}
\* The first of them, and the version its first pinning table gives.
FirstPinner(e) == CHOOSE k \in Pinners(e) : \A j \in Pinners(e) : k <= j
FirstVersion(e) == PinTables(files[FirstPinner(e)], e)[1].items[e]

(***************************************************************************)
(* C14: after scanning any sequence of manifests, the map holds for each   *)
(* dependency name the path of the first manifest that pinned it and the   *)
(* version first seen for it; every later manifest pinning a different     *)
(* version is reported, and the left-hand file and version of every dup!   *)
(* line are that first manifest and first version.                         *)
(***************************************************************************)
C14_MapKeepsFirstSeen ==
    dpc # "crashed" =>
        \A e \in DepNames :
            /\ Pinners(e) = {} => m[e] = <<>>
            /\ Pinners(e) # {} =>
                  /\ m[e] = <<FirstPinner(e), FirstVersion(e)>>
                  /\ \A k \in Pinners(e) :
                        FirstVersion(e) \notin PinVersions(files[k], e)
                            => \E n \in 1..Len(out) : out[n].name = e /\ out[n].rfile = k
                  /\ \A n \in 1..Len(out) :
                        out[n].name = e =>
                            out[n].lfile = FirstPinner(e) /\ out[n].lver = FirstVersion(e)

\* What the map does keep: the version first seen, with the path of a
\* manifest that pins that version (the else branch of lines 15-16 rewrites
\* the entry whenever the same version is met again).
C14_MapKeepsFirstVersion ==
    dpc # "crashed" =>
        \A e \in DepNames :
            /\ Pinners(e) = {} => m[e] = <<>>
            /\ Pinners(e) # {} =>
                  /\ m[e][2] = FirstVersion(e)
                  /\ m[e][1] \in Pinners(e)
                  /\ FirstVersion(e) \in PinVersions(files[m[e][1]], e)
                  /\ \A n \in 1..Len(out) :
                        out[n].name = e =>
                            /\ out[n].lver = FirstVersion(e)
                            /\ FirstVersion(e) \in PinVersions(files[out[n].lfile], e)

(***************************************************************************)
(* Vocabulary of the properties of the ABI codec                           *)
(***************************************************************************)
\* The codec was called with a method name no member of the document has.
Unmatched == apc = "done" /\ \A k \in 1..Len(ain.abi) : ain.abi[k].name # ain.method
\* The document with its last member taking the name asked for: what the
\* codec would work on if that member's type list were the one used.
LastMemberAs(abi, method) == <<[abi[Len(abi)] EXCEPT !.name = method]>>
\* The argument the call was given, as it was passed.
PassedArg == IF aout.fn = "abi_encode" THEN aout.arg.v ELSE aout.arg

(***************************************************************************)
(* C15 as stated: when no member of the interface document has the         *)
(* requested name, abi_encode (and abi_decode) raises no not-found error   *)
(* at lookup: the loop's state carries over from the last-examined member  *)
(* and encoding / decoding proceeds with that member's type list.          *)
(***************************************************************************)
C15_Original ==
    (Unmatched /\ Len(ain.abi) > 0) =>
        /\ aout.res.exc # "UnboundLocalError"
        /\ aout.res = IF aout.fn = "abi_encode"
                      THEN abi_encode(LastMemberAs(ain.abi, ain.method), ain.method, PassedArg)
                      ELSE abi_decode(LastMemberAs(ain.abi, ain.method), ain.method, PassedArg)

(***************************************************************************)
(* C15 amended: when no member of the interface document has the requested *)
(* name, abi_encode (and abi_decode) makes no not-found test of its own,   *)
(* and its type list is never bound: the call raises UnboundLocalError at  *)
(* the first use of the list, whatever the document holds, and returns     *)
(* nothing; no type list of another member is used.                        *)
(***************************************************************************)
C15_UnmatchedRaisesUnbound ==
    Unmatched =>
        /\ aout.fn \in {"abi_encode", "abi_decode"}
        /\ aout.res = Raise("UnboundLocalError")

\* abi_encode was given "transfer" and a document holding set and get only.
C15_Witness ==
    /\ Unmatched
    /\ aout.fn = "abi_encode"
    /\ Len(ain.abi) = 2 /\ ain.abi[2].name = "get" /\ ain.method = "transfer"
    /\ aout.arg = List(<<>>)
    /\ aout.res.exc = "UnboundLocalError"

====
